---- MODULE Spec2Model ----
(***************************************************************************)
(* Model of the Rez build scripts of OpenCue (pycue/build.py, rqd/build.py) *)
(* One build invocation is a sequential program; pc is its position.       *)
(* The filesystem is three trees (source, build, install) of file records. *)
(* Subprocess outcomes (protoc, fix_compiled_proto.py, 2to3) and the state  *)
(* of the disk before the build are inputs chosen nondeterministically.     *)
(***************************************************************************)
EXTENDS Integers, Sequences, FiniteSets, TLC

VARIABLES
    pkg,               \* which build.py runs: "pycue" or "rqd"
    targets,           \* sys.argv[1:] as a set
    pc,                \* position in build()
    proto_src_exists,  \* os.path.exists(proto_src_path)
    proto_src_files,   \* os.listdir(proto_src_path)
    fix_script_exists, \* os.path.exists(fix_script_path)
    src,               \* files under source_path
    bld,               \* files under build_path
    inst,              \* files under install_path
    inst0,             \* files under install_path when build() was entered
    stubs0,            \* files under compiled_proto_path when build() was entered
    src0,              \* files under source_path when build() was entered
    bld0,              \* files under build_path when build() was entered
    fs_faulty,         \* the filesystem refuses to clear or create compiled_proto_path
    builds,            \* build() invocations completed before this one on the same paths
    proto_files,       \* local variable proto_files of _build
    calls,             \* subprocess.run invocations so far, in order
    events,            \* stages started so far, in order
    log,               \* logger records of level WARNING and ERROR, in order
    raised,            \* exception propagating out of build(), if any
    content,           \* text of one file handed to _fix_rqd_imports
    original,          \* that text before the first rewriting
    runs               \* how many times the file has been rewritten

vars == <<pkg, targets, pc, proto_src_exists, proto_src_files, fix_script_exists, src0, bld0, fs_faulty, builds,
          src, bld, inst, inst0, stubs0, proto_files, calls, events, log, raised,
          content, original, runs>>

buildVars == <<pkg, targets, pc, proto_src_exists, proto_src_files, fix_script_exists, src0, bld0, fs_faulty, builds,
               src, bld, inst, inst0, stubs0, proto_files, calls, events, log, raised>>

textVars == <<content, original, runs>>

----------------------------------------------------------------------------
(* Bounds *)

MaxProto == 2      \* at most this many .proto files in the proto directory
MaxStale == 2      \* at most this many proto schemas compiled by an earlier build
MaxExit == 1       \* subprocess exit statuses range over 0..MaxExit
MaxPieces == 3     \* a file text is a concatenation of at most this many fragments
MaxRuns == 2       \* the rewriting is applied at most this many times to a text

----------------------------------------------------------------------------
(* File names *)

ProtoName == <<"host.proto", "job.proto", "show.proto", "task.proto">>
Pb2Name == <<"host_pb2.py", "job_pb2.py", "show_pb2.py", "task_pb2.py">>
Pb2GrpcName == <<"host_pb2_grpc.py", "job_pb2_grpc.py", "show_pb2_grpc.py", "task_pb2_grpc.py">>

files_to_fix == <<"rqcore.py", "rqmachine.py", "rqnetwork.py", "rqdservicers.py", "cuerqd.py">>

Range(q) == {q[i] : i \in 1..Len(q)}

\* file.endswith(".proto")
EndsWithProto(name) == \E i \in 1..Len(ProtoName) : name = ProtoName[i]

\* f.endswith(".py")
EndsWithPy(name) ==
    \/ \E i \in 1..Len(Pb2Name) : name \in {Pb2Name[i], Pb2GrpcName[i]}
    \/ name \in Range(files_to_fix) \cup {"__main__.py", "__init__.py", "api.py", "package.py", "old.py", "removed.py"}

----------------------------------------------------------------------------
(* Filesystem trees: sets of [path, origin, marks] *)

File(path, origin) == [path |-> path, origin |-> origin, marks |-> {}]

IsPrefix(p, q) == Len(p) <= Len(q) /\ SubSeq(q, 1, Len(p)) = p

Under(tree, p) == {f \in tree : IsPrefix(p, f.path)}

\* shutil.rmtree(p) / os.remove(p), guarded by os.path.exists(p)
rmtree(tree, p) == tree \ Under(tree, p)

\* shutil.copytree(from, to) / shutil.copy2(from, to): the files placed under to
copytree(tree, from, to) ==
    {[f EXCEPT !.path = to \o SubSeq(f.path, Len(from) + 1, Len(f.path))] : f \in Under(tree, from)}

Names(tree, p) == {f.path[Len(p) + 1] : f \in {g \in Under(tree, p) : Len(g.path) > Len(p)}}

\* compiled_proto_path, relative to the tree that holds it
compiled_proto_path == IF pkg = "pycue" THEN <<"opencue_proto">> ELSE <<"rqd", "compiled_proto">>

\* the tree that holds compiled_proto_path: build_path for pycue, source_path for rqd
StubTree == IF pkg = "pycue" THEN bld ELSE src

StubDir == Under(StubTree, compiled_proto_path)

----------------------------------------------------------------------------
(* Exceptions and log records *)

NoCause == [type |-> "none", returncode |-> 0, stderr |-> "", stdout |-> ""]
NoError == [type |-> "none", text |-> "", cmd |-> "", returncode |-> 0, cause |-> NoCause]

CalledProcessError(cmd, rc, out, err) ==
    [type |-> "CalledProcessError", returncode |-> rc, stderr |-> err, stdout |-> out]

\* TestError(f"<text>{e}") raised inside "except CalledProcessError as e":
\* str(e) is "Command '<cmd>' returned non-zero exit status <rc>."
TestErrorFrom(text, cmd, e) ==
    [type |-> "TestError", text |-> text, cmd |-> cmd, returncode |-> e.returncode, cause |-> e]

\* TestError("<text>") raised outside an except block
TestError(text) ==
    [type |-> "TestError", text |-> text, cmd |-> "", returncode |-> 0, cause |-> NoCause]

Rec(level, text, arg) == [level |-> level, text |-> text, arg |-> arg]

Outputs == {"", "host.proto:3:1: Expected top-level statement."}

ExitCodes == 0..MaxExit

\* one subprocess.run call: started is FALSE when the executable was not found
Call(tool, started, rc, err) == [tool |-> tool, started |-> started, returncode |-> rc, stderr |-> err]

----------------------------------------------------------------------------
(* Text rewriting of _fix_rqd_imports; a text is a sequence of characters *)

\* "import "
import_kw == <<"i", "m", "p", "o", "r", "t", " ">>
\* "from "
from_kw == <<"f", "r", "o", "m", " ">>
\* "opencue_proto."
opencue_proto_dot == <<"o", "p", "e", "n", "c", "u", "e", "_", "p", "r", "o", "t", "o", ".">>
\* "rqd.compiled_proto."
rqd_compiled_proto_dot == <<"r", "q", "d", ".", "c", "o", "m", "p", "i", "l", "e", "d", "_", "p", "r", "o", "t", "o", ".">>

\* Python str.replace(old, new): every non-overlapping occurrence, scanning left to right
RECURSIVE replace(_, _, _)
replace(s, old, new) ==
    IF Len(s) < Len(old) THEN s
    ELSE IF SubSeq(s, 1, Len(old)) = old
         THEN new \o replace(SubSeq(s, Len(old) + 1, Len(s)), old, new)
         ELSE <<s[1]>> \o replace(Tail(s), old, new)

\* variant: the relocated package keeps the canonical name as its last component
FixContent_Nested(c) ==
    replace(c, opencue_proto_dot, <<"r", "q", "d", ".">> \o opencue_proto_dot)

\* variant: the from form is rewritten to a relative import
FixContent_RelativeFrom(c) ==
    replace(replace(replace(c, import_kw \o opencue_proto_dot, import_kw \o rqd_compiled_proto_dot),
                    from_kw \o opencue_proto_dot, from_kw \o <<".">> \o SubSeq(rqd_compiled_proto_dot, 5, Len(rqd_compiled_proto_dot))),
            opencue_proto_dot, rqd_compiled_proto_dot)

\* variant: only the two import statement forms are rewritten
FixContent_ImportsOnly(c) ==
    replace(replace(c, import_kw \o opencue_proto_dot, import_kw \o rqd_compiled_proto_dot),
            from_kw \o opencue_proto_dot, from_kw \o rqd_compiled_proto_dot)

\* the three content.replace calls of _fix_rqd_imports, in order
FixContent(c) ==
    replace(replace(replace(c, import_kw \o opencue_proto_dot, import_kw \o rqd_compiled_proto_dot),
                    from_kw \o opencue_proto_dot, from_kw \o rqd_compiled_proto_dot),
            opencue_proto_dot, rqd_compiled_proto_dot)

\* fragments from which the texts handed to the rewriting are assembled
Fragments == <<
    import_kw \o opencue_proto_dot,
    from_kw \o opencue_proto_dot,
    opencue_proto_dot,
    rqd_compiled_proto_dot,
    <<"m", "y", "_">>,
    <<"x", " ">>,
    SubSeq(opencue_proto_dot, 1, Len(opencue_proto_dot) - 1),
    <<".">>,
    import_kw,
    from_kw >>

RECURSIVE Concat(_, _)
Concat(f, n) == IF n = 0 THEN <<>> ELSE Concat(f, n - 1) \o Fragments[f[n]]

----------------------------------------------------------------------------
(* State of the disk when build() is entered *)

StaleStubs(k, dir) == {File(dir \o <<n>>, "stale") : n \in {Pb2Name[i] : i \in 1..k} \cup {Pb2GrpcName[i] : i \in 1..k}}

SourceTree(p, extra, k) ==
    IF p = "pycue"
    THEN {File(<<"opencue", "api.py">>, "src"), File(<<"package.py">>, "src"),
          File(<<"build", "build.rxt">>, "src")}
         \cup (IF extra THEN {File(<<"opencue_proto", "__init__.py">>, "src")} ELSE {})
    ELSE {File(<<"rqd", "__main__.py">>, "src"), File(<<"rqd", "rqcore.py">>, "src")}
         \cup (IF extra THEN {File(<<"rqd", n>>, "src") : n \in Range(files_to_fix)} ELSE {})
         \cup StaleStubs(k, <<"rqd", "compiled_proto">>)

BuildTree(p, stale, k) ==
    IF p = "pycue"
    THEN (IF stale THEN {File(<<"removed.py">>, "stale"), File(<<"opencue", "api.py">>, "stale")} ELSE {})
         \cup StaleStubs(k, <<"opencue_proto">>)
    ELSE (IF stale THEN {File(<<"removed.py">>, "stale"), File(<<"rqd", "old.py">>, "stale"),
                         File(<<"bin", "rqd">>, "stale")} ELSE {})

InstallTree(p, stale) ==
    IF stale
    THEN {File(<<IF p = "pycue" THEN "opencue" ELSE "rqd", "old.py">>, "stale"),
          File(<<"extra", "readme.txt">>, "stale")}
    ELSE {}

\* a hand-written module that uses the generated package in the three forms
SampleContent == Fragments[1] \o Fragments[6] \o Fragments[2] \o Fragments[6] \o Fragments[3] \o Fragments[6]

InitText ==
    /\ content = SampleContent
    /\ original = SampleContent
    /\ runs = 0

InitDisk ==
    /\ pkg \in {"pycue", "rqd"}
    /\ targets \in {{}, {"install"}}
    /\ pc = "build"
    /\ proto_src_exists \in BOOLEAN
    /\ \E n \in 0..MaxProto, readme \in BOOLEAN :
          proto_src_files = IF proto_src_exists
                            THEN {ProtoName[i] : i \in 1..n} \cup (IF readme THEN {"README.md"} ELSE {})
                            ELSE {}
    /\ fix_script_exists \in BOOLEAN
    /\ \E extra \in BOOLEAN, staleB \in BOOLEAN, staleI \in BOOLEAN, k \in 0..MaxStale :
          /\ src = SourceTree(pkg, extra, k)
          /\ bld = BuildTree(pkg, staleB, k)
          /\ inst = InstallTree(pkg, staleI)
    /\ inst0 = inst
    /\ stubs0 = StubDir
    /\ src0 = src
    /\ bld0 = bld
    /\ builds = 0
    /\ proto_files = {}
    /\ calls = <<>>
    /\ events = <<>>
    /\ log = <<>>
    /\ raised = NoError

\* The runs of the build in which every filesystem call succeeds.
InitBuild == InitDisk /\ fs_faulty = FALSE

Init == InitBuild /\ InitText

----------------------------------------------------------------------------
(* build(): entry, and the proto stages of _build (the same code in         *)
(* pycue/build.py lines 26-123 and rqd/build.py lines 56-149)               *)


\* statement order of _build in the cuegui, cueadmin and cueweb scripts
ThenOther(p) ==
    CASE p = "build" -> "copy"
      [] p = "copy" /\ pkg = "cuegui" -> "copy_bin"
      [] p = "copy" /\ pkg = "cueadmin" -> "create_cueadmin"
      [] p = "copy" /\ pkg = "cueweb" -> "npm_version"
      [] p = "copy_bin" -> "built"
      [] p = "create_cueadmin" -> "built"
      [] p = "npm_version" -> "npm_ci"
      [] p = "npm_ci" -> "npm_build"
      [] p = "npm_build" -> "create_executable"
      [] p = "create_executable" -> "cleanup"
      [] p = "cleanup" -> "built"

\* variant: the 2to3 conversion runs before the fix helper
Then_NormalizeFirst(p) ==
    CASE p = "build" /\ pkg \in {"pycue", "rqd"} -> "exists_proto_src"
      [] p = "exists_proto_src" -> "clear"
      [] p = "clear" -> "listdir"
      [] p = "listdir" -> "protoc"
      [] p = "protoc" -> "2to3"
      [] p = "2to3" -> "fix"
      [] p = "fix" -> "copy"
      [] p = "copy" /\ pkg = "pycue" -> "built"
      [] p = "copy" /\ pkg = "rqd" -> "fix_rqd_imports"
      [] p = "fix_rqd_imports" -> "launcher"
      [] p = "launcher" -> "built"
      [] p = "built" -> IF "install" \in targets THEN "install" ELSE "done"
      [] p = "install" -> "done"
      [] OTHER -> ThenOther(p)

\* variant: build() calls _install whatever the targets are
Then_AlwaysInstall(p) ==
    CASE p = "build" /\ pkg \in {"pycue", "rqd"} -> "exists_proto_src"
      [] p = "exists_proto_src" -> "clear"
      [] p = "clear" -> "listdir"
      [] p = "listdir" -> "protoc"
      [] p = "protoc" -> "fix"
      [] p = "fix" -> "2to3"
      [] p = "2to3" -> "copy"
      [] p = "copy" /\ pkg = "pycue" -> "built"
      [] p = "copy" /\ pkg = "rqd" -> "fix_rqd_imports"
      [] p = "fix_rqd_imports" -> "launcher"
      [] p = "launcher" -> "built"
      [] p = "built" -> "install"
      [] p = "install" -> "done"
      [] OTHER -> ThenOther(p)

\* statement order of build() and _build: the position that follows p when p completes
\* without raising
Then(p) ==
    CASE p = "build" /\ pkg \in {"pycue", "rqd"} -> "exists_proto_src"
      [] p = "exists_proto_src" -> "clear"
      [] p = "clear" -> "listdir"
      [] p = "listdir" -> "protoc"
      [] p = "protoc" -> "fix"
      [] p = "fix" -> "2to3"
      [] p = "2to3" -> "copy"
      [] p = "copy" /\ pkg = "pycue" -> "built"
      [] p = "copy" /\ pkg = "rqd" -> "fix_rqd_imports"
      [] p = "fix_rqd_imports" -> "launcher"
      [] p = "launcher" -> "built"
      [] p = "built" -> IF "install" \in targets THEN "install" ELSE "done"
      [] p = "install" -> "done"
      [] OTHER -> ThenOther(p)

\* build() logs its arguments and calls _build; pycue creates build_path first
BuildEnter ==
    /\ pc = "build"
    /\ pc' = Then(pc)
    /\ UNCHANGED <<pkg, targets, proto_src_exists, proto_src_files, fix_script_exists, src0, bld0, fs_faulty, builds,
                   src, bld, inst, inst0, stubs0, proto_files, calls, events, log, raised>>
    /\ UNCHANGED textVars

\* if os.path.exists(proto_src_path): ... else: raise TestError
CheckProtoSrc ==
    /\ pc = "exists_proto_src"
    /\ events' = Append(events, "DISCOVER")
    /\ IF proto_src_exists
       THEN /\ pc' = Then(pc)
            /\ raised' = raised
       ELSE /\ pc' = "failed"
            /\ raised' = TestError("Proto source not found at ")
    /\ UNCHANGED <<pkg, targets, proto_src_exists, proto_src_files, fix_script_exists, src0, bld0, fs_faulty, builds,
                   src, bld, inst, inst0, stubs0, proto_files, calls, log>>
    /\ UNCHANGED textVars

\* variant: only os.makedirs(path, exist_ok=True), without the rmtree
ClearedTree_Keep(tree, path) == tree

\* variant: the directory that holds path is removed, not path itself
ClearedTree_Parent(tree, path) == rmtree(tree, SubSeq(path, 1, Len(path) - 1))

\* if os.path.exists(path): shutil.rmtree(path); os.makedirs(path, exist_ok=True)
ClearedTree(tree, path) == rmtree(tree, path)

\* An exception that is not a TestError, as it leaves _build: the decorator
\* logger.catch(exception=TestError, reraise=True) handles TestError only, and
\* nothing in _build catches OSError, so the exception leaves build() as it is.
Reraised_Wrapped(e) == IF e.type = "TestError" THEN e ELSE TestErrorFrom("Error", "", e)

Reraised(e) == e

\* shutil.rmtree / os.makedirs failing on the stub directory (permissions,
\* read-only or full filesystem): rmtree may have removed any part of the
\* directory before it raised.
OSError == [type |-> "OSError", text |-> "", cmd |-> "", returncode |-> 0, cause |-> NoCause]

\* the step of _build that clears compiled_proto_path
ClearCompiledProto ==
    /\ pc = "clear"
    /\ events' = Append(events, "CLEAR")
    /\ IF fs_faulty
       THEN /\ pc' = "failed"
            /\ raised' = Reraised(OSError)
            /\ \E gone \in SUBSET StubDir :
                  IF pkg = "pycue"
                  THEN bld' = bld \ gone /\ src' = src
                  ELSE src' = src \ gone /\ bld' = bld
       ELSE /\ pc' = Then(pc)
            /\ raised' = raised
            /\ IF pkg = "pycue"
               THEN bld' = ClearedTree(bld, compiled_proto_path) /\ src' = src
               ELSE src' = ClearedTree(src, compiled_proto_path) /\ bld' = bld
    /\ UNCHANGED <<pkg, targets, proto_src_exists, proto_src_files, fix_script_exists, src0, bld0, fs_faulty, builds,
                   inst, inst0, stubs0, proto_files, calls, log>>
    /\ UNCHANGED textVars

\* variant: the emptiness check is missing
NoProtoFiles_Never(files) == FALSE

\* if not proto_files:
NoProtoFiles(files) == files = {}

\* proto_files = [file for file in os.listdir(...) if file.endswith(".proto")]
\* if not proto_files: raise TestError
ListProtoFiles ==
    /\ pc = "listdir"
    /\ events' = Append(events, "LIST")
    /\ proto_files' = {f \in proto_src_files : EndsWithProto(f)}
    /\ IF NoProtoFiles(proto_files')
       THEN /\ pc' = "failed"
            /\ raised' = TestError("No .proto files found in proto source directory")
       ELSE /\ pc' = Then(pc)
            /\ raised' = raised
    /\ UNCHANGED <<pkg, targets, proto_src_exists, proto_src_files, fix_script_exists, src0, bld0, fs_faulty, builds,
                   src, bld, inst, inst0, stubs0, calls, log>>
    /\ UNCHANGED textVars

\* what grpc_tools.protoc --python_out=D --grpc_python_out=D writes for the given files
ProtocOutput(protos, dir) ==
    {File(dir \o <<Pb2Name[i]>>, "protoc") : i \in {j \in 1..Len(ProtoName) : ProtoName[j] \in protos}}
    \cup {File(dir \o <<Pb2GrpcName[i]>>, "protoc") : i \in {j \in 1..Len(ProtoName) : ProtoName[j] \in protos}}

\* writing a set of files into a tree, replacing files of the same path
WriteFiles(tree, new) == {f \in tree : \A g \in new : g.path # f.path} \cup new

\* variant: the handler logs and does not raise
OnProtocFailure_LogOnly(e) ==
    [pc |-> Then("protoc"),
     log |-> <<Rec("ERROR", "Failed to compile proto files: ", "CalledProcessError"),
               Rec("ERROR", "stdout: ", e.stdout),
               Rec("ERROR", "stderr: ", e.stderr)>>,
     raised |-> NoError]

\* variant: the handler does not log the captured stderr, and raises outside the except block
OnProtocFailure_NoStderr(e) ==
    [pc |-> "failed",
     log |-> <<Rec("ERROR", "Failed to compile proto files: ", "CalledProcessError")>>,
     raised |-> TestError("Proto compilation failed: ")]

\* except subprocess.CalledProcessError as e: three logger.error calls, then
\* raise TestError(f"Proto compilation failed: {e}")
OnProtocFailure(e) ==
    [pc |-> "failed",
     log |-> <<Rec("ERROR", "Failed to compile proto files: ", "CalledProcessError"),
               Rec("ERROR", "stdout: ", e.stdout),
               Rec("ERROR", "stderr: ", e.stderr)>>,
     raised |-> TestErrorFrom("Proto compilation failed: ", "grpc_tools.protoc", e)]

\* subprocess.run(cmd, cwd=proto_src_path, check=True, capture_output=True, text=True)
\* inside try/except CalledProcessError
RunProtoc ==
    /\ pc = "protoc"
    /\ events' = Append(events, "COMPILE")
    /\ \E rc \in ExitCodes, out \in Outputs, err \in Outputs :
          /\ calls' = Append(calls, Call("grpc_tools.protoc", TRUE, rc, err))
          /\ IF rc = 0
             THEN /\ pc' = Then(pc)
                  /\ IF pkg = "pycue"
                     THEN bld' = WriteFiles(bld, ProtocOutput(proto_files, compiled_proto_path)) /\ src' = src
                     ELSE src' = WriteFiles(src, ProtocOutput(proto_files, compiled_proto_path)) /\ bld' = bld
                  /\ UNCHANGED <<log, raised>>
             ELSE LET h == OnProtocFailure(CalledProcessError("grpc_tools.protoc", rc, out, err))
                  IN /\ pc' = h.pc
                     /\ log' = log \o h.log
                     /\ raised' = h.raised
                     /\ UNCHANGED <<src, bld>>
    /\ UNCHANGED <<pkg, targets, proto_src_exists, proto_src_files, fix_script_exists, src0, bld0, fs_faulty, builds,
                   inst, inst0, stubs0, proto_files>>
    /\ UNCHANGED textVars

Mark(tree, dir, m) == {IF IsPrefix(dir, f.path) THEN [f EXCEPT !.marks = @ \cup {m}] ELSE f : f \in tree}

\* variant: the handler warns and lets the build continue
OnFixFailure_WarnOnly(e) ==
    [pc |-> Then("fix"),
     log |-> <<Rec("WARNING", "Failed to fix proto imports: ", "CalledProcessError")>>,
     raised |-> NoError]

\* except subprocess.CalledProcessError as e: three logger.error calls, then
\* raise TestError(f"Proto import fixing failed: {e}")
OnFixFailure(e) ==
    [pc |-> "failed",
     log |-> <<Rec("ERROR", "Failed to fix proto imports: ", "CalledProcessError"),
               Rec("ERROR", "stdout: ", e.stdout),
               Rec("ERROR", "stderr: ", e.stderr)>>,
     raised |-> TestErrorFrom("Proto import fixing failed: ", "fix_compiled_proto.py", e)]

\* if os.path.exists(fix_script_path): subprocess.run([python, fix_script_path, compiled_proto_path],
\* check=True) inside try/except CalledProcessError; else: logger.warning
FixCompiledProto ==
    /\ pc = "fix"
    /\ IF fix_script_exists
       THEN /\ events' = Append(events, "MODE_A")
            /\ \E rc \in ExitCodes, out \in Outputs, err \in Outputs :
                  /\ calls' = Append(calls, Call("fix_compiled_proto.py", TRUE, rc, err))
                  /\ IF rc = 0
                     THEN /\ pc' = Then(pc)
                          /\ IF pkg = "pycue"
                             THEN bld' = Mark(bld, compiled_proto_path, "fixed") /\ src' = src
                             ELSE src' = Mark(src, compiled_proto_path, "fixed") /\ bld' = bld
                          /\ UNCHANGED <<log, raised>>
                     ELSE LET h == OnFixFailure(CalledProcessError("fix_compiled_proto.py", rc, out, err))
                          IN /\ pc' = h.pc
                             /\ log' = log \o h.log
                             /\ raised' = h.raised
                             /\ UNCHANGED <<src, bld>>
       ELSE /\ pc' = Then(pc)
            /\ log' = Append(log, Rec("WARNING", "fix_compiled_proto.py not found at ", "fix_script_path"))
            /\ UNCHANGED <<events, calls, src, bld, raised>>
    /\ UNCHANGED <<pkg, targets, proto_src_exists, proto_src_files, fix_script_exists, src0, bld0, fs_faulty, builds,
                   inst, inst0, stubs0, proto_files>>
    /\ UNCHANGED textVars

\* py_files = [f for f in os.listdir(compiled_proto_path) if f.endswith(".py")]
py_files ==
    {f \in StubDir : Len(f.path) = Len(compiled_proto_path) + 1 /\ EndsWithPy(f.path[Len(f.path)])}

MarkFiles(tree, fs, m) == {IF f \in fs THEN [f EXCEPT !.marks = @ \cup {m}] ELSE f : f \in tree}

\* variant: a failing 2to3 is fatal, as a failing protoc is
On2to3Failure_Fatal(e) ==
    [pc |-> "failed",
     log |-> <<Rec("ERROR", "2to3 conversion failed: ", e)>>,
     raised |-> TestError("2to3 conversion failed: ")]

\* except subprocess.CalledProcessError as e: logger.warning
\* except FileNotFoundError: logger.warning
On2to3Failure(e) ==
    [pc |-> Then("2to3"),
     log |-> IF e = "CalledProcessError"
             THEN <<Rec("WARNING", "2to3 conversion failed or not needed: ", "CalledProcessError")>>
             ELSE <<Rec("WARNING", "2to3 tool not found, skipping conversion", "")>>,
     raised |-> NoError]

\* try: subprocess.run(["2to3", "-w", "-n"] + py_files, cwd=compiled_proto_path, check=True)
\* with the two except clauses
Run2to3 ==
    /\ pc = "2to3"
    /\ IF py_files # {}
       THEN /\ events' = Append(events, "NORMALIZE")
            /\ \/ /\ calls' = Append(calls, Call("2to3", TRUE, 0, ""))
                  /\ IF pkg = "pycue"
                     THEN bld' = MarkFiles(bld, py_files, "2to3") /\ src' = src
                     ELSE src' = MarkFiles(src, py_files, "2to3") /\ bld' = bld
                  /\ pc' = Then(pc)
                  /\ UNCHANGED <<log, raised>>
               \/ \E rc \in ExitCodes \ {0}, converted \in SUBSET py_files :
                     /\ calls' = Append(calls, Call("2to3", TRUE, rc, ""))
                     /\ IF pkg = "pycue"
                        THEN bld' = MarkFiles(bld, converted, "2to3") /\ src' = src
                        ELSE src' = MarkFiles(src, converted, "2to3") /\ bld' = bld
                     /\ LET h == On2to3Failure("CalledProcessError")
                        IN pc' = h.pc /\ log' = log \o h.log /\ raised' = h.raised
               \/ /\ calls' = Append(calls, Call("2to3", FALSE, 0, ""))
                  /\ LET h == On2to3Failure("FileNotFoundError")
                     IN pc' = h.pc /\ log' = log \o h.log /\ raised' = h.raised
                  /\ UNCHANGED <<src, bld>>
       ELSE /\ pc' = Then(pc)
            /\ log' = Append(log, Rec("WARNING", "No Python files found for 2to3 conversion", ""))
            /\ UNCHANGED <<events, calls, src, bld, raised>>
    /\ UNCHANGED <<pkg, targets, proto_src_exists, proto_src_files, fix_script_exists, src0, bld0, fs_faulty, builds,
                   inst, inst0, stubs0, proto_files>>
    /\ UNCHANGED textVars

----------------------------------------------------------------------------
(* The rest of _build *)

\* pycue: for path in pathlib.Path(source_path).iterdir(): skip "build"; remove dest; copy
CopySourcePycue ==
    /\ pc = "copy"
    /\ pkg = "pycue"
    /\ pc' = Then(pc)
    /\ events' = Append(events, "COPY")
    /\ LET copied == Names(src, <<>>) \ {"build"}
       IN bld' = {f \in bld : f.path[1] \notin copied} \cup {f \in src : f.path[1] \in copied}
    /\ UNCHANGED <<pkg, targets, proto_src_exists, proto_src_files, fix_script_exists, src0, bld0, fs_faulty, builds,
                   src, inst, inst0, stubs0, proto_files, calls, log, raised>>
    /\ UNCHANGED textVars

\* variant: shutil.copytree(rqd_src, rqd_dest, dirs_exist_ok=True) without the rmtree
CopySourceRqd_Merge ==
    /\ pc = "copy"
    /\ pkg = "rqd"
    /\ pc' = "fix_rqd_imports"
    /\ events' = Append(events, "COPY")
    /\ bld' = {f \in bld : \A g \in copytree(src, <<"rqd">>, <<"rqd">>) : g.path # f.path}
              \cup copytree(src, <<"rqd">>, <<"rqd">>)
    /\ UNCHANGED <<pkg, targets, proto_src_exists, proto_src_files, fix_script_exists, src0, bld0, fs_faulty, builds,
                   src, inst, inst0, stubs0, proto_files, calls, log, raised>>
    /\ UNCHANGED textVars

\* rqd: if os.path.exists(rqd_dest): shutil.rmtree(rqd_dest); shutil.copytree(rqd_src, rqd_dest)
CopySourceRqd ==
    /\ pc = "copy"
    /\ pkg = "rqd"
    /\ pc' = Then(pc)
    /\ events' = Append(events, "COPY")
    /\ bld' = rmtree(bld, <<"rqd">>) \cup copytree(src, <<"rqd">>, <<"rqd">>)
    /\ UNCHANGED <<pkg, targets, proto_src_exists, proto_src_files, fix_script_exists, src0, bld0, fs_faulty, builds,
                   src, inst, inst0, stubs0, proto_files, calls, log, raised>>
    /\ UNCHANGED textVars

\* os.path.exists(os.path.join(rqd_directory, filename))
ListedFileExists(tree, rqd_directory, filename) ==
    \E f \in tree : f.path = rqd_directory \o <<filename>>

\* the warnings of _fix_rqd_imports, one for each listed file that is missing, in list order
RECURSIVE MissingWarnings(_, _, _)
MissingWarnings(tree, rqd_directory, i) ==
    IF i > Len(files_to_fix) THEN <<>>
    ELSE (IF ListedFileExists(tree, rqd_directory, files_to_fix[i]) THEN <<>>
          ELSE <<Rec("WARNING", "File not found: ", files_to_fix[i])>>)
         \o MissingWarnings(tree, rqd_directory, i + 1)

\* variant: every .py file below rqd_directory is rewritten
FilesToRewrite_AllPy(tree, rqd_directory) ==
    {f \in Under(tree, rqd_directory) : EndsWithPy(f.path[Len(f.path)])}

\* for filename in files_to_fix: filepath = os.path.join(rqd_directory, filename);
\* if os.path.exists(filepath): the files that are opened, rewritten and written back
FilesToRewrite(tree, rqd_directory) ==
    {f \in tree : \E i \in 1..Len(files_to_fix) : f.path = rqd_directory \o <<files_to_fix[i]>>}

\* _fix_rqd_imports(rqd_dest): rewrite every listed file that exists, warn for the others;
\* content is the text of rqcore.py
FixRqdImports ==
    /\ pc = "fix_rqd_imports"
    /\ pc' = Then(pc)
    /\ events' = Append(events, "MODE_B")
    /\ bld' = MarkFiles(bld, FilesToRewrite(bld, <<"rqd">>), "modeB")
    /\ log' = log \o MissingWarnings(bld, <<"rqd">>, 1)
    /\ IF ListedFileExists(bld, <<"rqd">>, "rqcore.py")
       THEN content' = FixContent(content) /\ runs' = runs + 1
       ELSE UNCHANGED <<content, runs>>
    /\ UNCHANGED <<pkg, targets, proto_src_exists, proto_src_files, fix_script_exists, src0, bld0, fs_faulty, builds,
                   src, inst, inst0, stubs0, proto_files, calls, raised, original>>

\* os.makedirs(bin_dir, exist_ok=True); write bin/rqd; os.chmod
CreateLauncher ==
    /\ pc = "launcher"
    /\ pc' = Then(pc)
    /\ events' = Append(events, "LAUNCHER")
    /\ bld' = WriteFiles(bld, {File(<<"bin", "rqd">>, "launcher")})
    /\ UNCHANGED <<pkg, targets, proto_src_exists, proto_src_files, fix_script_exists, src0, bld0, fs_faulty, builds,
                   src, inst, inst0, stubs0, proto_files, calls, log, raised>>
    /\ UNCHANGED textVars

----------------------------------------------------------------------------
(* build() after _build has returned, and _install *)

\* _build(); if "install" in (targets or []): _install()
AfterBuild ==
    /\ pc = "built"
    /\ pc' = Then(pc)
    /\ UNCHANGED <<pkg, targets, proto_src_exists, proto_src_files, fix_script_exists, src0, bld0, fs_faulty, builds,
                   src, bld, inst, inst0, stubs0, proto_files, calls, events, log, raised>>
    /\ UNCHANGED textVars

\* variant: shutil.copytree(from, to, dirs_exist_ok=True) without the rmtree
ReplaceDir_Merge(instTree, bldTree, dir) == WriteFiles(instTree, copytree(bldTree, dir, dir))

\* if os.path.exists(to): shutil.rmtree(to); shutil.copytree(from, to)
\* with from = build_path + dir and to = install_path + dir
ReplaceDir(instTree, bldTree, dir) == rmtree(instTree, dir) \cup copytree(bldTree, dir, dir)

\* pycue _install: if exists(build_path): if exists(install_path): rmtree; copytree(build, install)
InstallPycue ==
    /\ pc = "install"
    /\ pkg = "pycue"
    /\ pc' = Then(pc)
    /\ events' = Append(events, "INSTALL")
    /\ inst' = ReplaceDir(inst, bld, <<>>)
    /\ UNCHANGED <<pkg, targets, proto_src_exists, proto_src_files, fix_script_exists, src0, bld0, fs_faulty, builds,
                   src, bld, inst0, stubs0, proto_files, calls, log, raised>>
    /\ UNCHANGED textVars

\* os.path.exists(dir) for a directory of a tree
DirExists(tree, dir) == Under(tree, dir) # {}

\* rqd _install: replace install_path/rqd by build_path/rqd, then install_path/bin by
\* build_path/bin; raise TestError when a build directory is missing
InstallRqd ==
    /\ pc = "install"
    /\ pkg = "rqd"
    /\ events' = Append(events, "INSTALL")
    /\ IF ~DirExists(bld, <<"rqd">>)
       THEN /\ pc' = "failed"
            /\ raised' = TestError("RQD build directory not found: ")
            /\ inst' = inst
       ELSE LET afterRqd == ReplaceDir(inst, bld, <<"rqd">>)
            IN IF ~DirExists(bld, <<"bin">>)
               THEN /\ pc' = "failed"
                    /\ raised' = TestError("Bin build directory not found: ")
                    /\ inst' = afterRqd
               ELSE /\ pc' = Then(pc)
                    /\ raised' = raised
                    /\ inst' = ReplaceDir(afterRqd, bld, <<"bin">>)
    /\ UNCHANGED <<pkg, targets, proto_src_exists, proto_src_files, fix_script_exists, src0, bld0, fs_faulty, builds,
                   src, bld, inst0, stubs0, proto_files, calls, log>>
    /\ UNCHANGED textVars

Next ==
    \/ BuildEnter
    \/ CheckProtoSrc
    \/ ClearCompiledProto
    \/ ListProtoFiles
    \/ RunProtoc
    \/ FixCompiledProto
    \/ Run2to3
    \/ CopySourcePycue
    \/ CopySourceRqd
    \/ FixRqdImports
    \/ CreateLauncher
    \/ AfterBuild
    \/ InstallPycue
    \/ InstallRqd

Spec == Init /\ [][Next]_vars

----------------------------------------------------------------------------
(* The cuegui, cueadmin and cueweb build scripts                           *)
(* cuegui/build.py, cueadmin/build.py, cueweb/build.py                     *)

MaxBuilds == 1

\* the source path of the package; extra adds the entries a source tree may or may not hold
OtherSource(p, extra) ==
    CASE p = "cuegui" ->
           {File(<<"cuegui", "Main.py">>, "src"), File(<<"package.py">>, "src"),
            File(<<"build", "build.rxt">>, "src")}
           \cup (IF extra THEN {File(<<"cuegui", "bin", "cuegui">>, "src")} ELSE {})
      [] p = "cueadmin" ->
           {File(<<"cueadmin", "__main__.py">>, "src"), File(<<"package.py">>, "src"),
            File(<<"build", "build.rxt">>, "src")}
           \cup (IF extra THEN {File(<<"tests", "test_output.py">>, "src")} ELSE {})
      [] p = "cueweb" ->
           {File(<<"package.json">>, "src"), File(<<"package-lock.json">>, "src"),
            File(<<"app", "page.tsx">>, "src"), File(<<"README.md">>, "src"),
            File(<<"build.py">>, "src"), File(<<".env">>, "src")}
           \cup (IF extra
                 THEN {File(<<"node_modules", "next", "index.js">>, "src"),
                       File(<<"public", "logo.png">>, "src"),
                       File(<<"app", "__tests__", "page.test.tsx">>, "src")}
                 ELSE {})

\* the build path when build() is entered: the Rez files, and what an earlier build left
OtherBuildTree(p, stale) ==
    {File(<<"build.rxt">>, "stale")}
    \cup (IF ~stale THEN {}
          ELSE IF p = "cueweb"
          THEN {File(<<".next", "BUILD_ID">>, "stale"), File(<<"README.md">>, "stale")}
          ELSE {File(<<"removed.py">>, "stale")})

\* the install path when build() is entered
OtherInstallTree(p, stale) ==
    IF stale THEN {File(<<"bin", "old">>, "stale"), File(<<"extra", "readme.txt">>, "stale")} ELSE {}

InitOthers ==
    /\ pkg \in {"cuegui", "cueadmin", "cueweb"}
    /\ targets \in {{}, {"install"}}
    /\ pc = "build"
    /\ proto_src_exists = FALSE
    /\ proto_src_files = {}
    /\ fix_script_exists = FALSE
    /\ \E extra \in BOOLEAN, staleB \in BOOLEAN, staleI \in BOOLEAN :
          /\ src = OtherSource(pkg, extra)
          /\ bld = OtherBuildTree(pkg, staleB)
          /\ inst = OtherInstallTree(pkg, staleI)
    /\ inst0 = inst
    /\ stubs0 = {}
    /\ src0 = src
    /\ bld0 = bld
    /\ fs_faulty = FALSE
    /\ builds = 0
    /\ proto_files = {}
    /\ calls = <<>>
    /\ events = <<>>
    /\ log = <<>>
    /\ raised = NoError
    /\ InitText

\* cuegui, cueadmin: for path in source_path.iterdir(): skip "build"; remove dest if it
\* exists; copytree or copy2
CopySourceOneLevel ==
    /\ pc = "copy"
    /\ pkg \in {"cuegui", "cueadmin"}
    /\ pc' = Then(pc)
    /\ events' = Append(events, "COPY")
    /\ LET copied == Names(src, <<>>) \ {"build"}
       IN bld' = {f \in bld : f.path[1] \notin copied} \cup {f \in src : f.path[1] \in copied}
    /\ UNCHANGED <<pkg, targets, proto_src_exists, proto_src_files, fix_script_exists, src0, bld0, fs_faulty, builds,
                   src, inst, inst0, stubs0, proto_files, calls, log, raised>>
    /\ UNCHANGED textVars

\* shutil.copytree(src, dst) on an existing dst: os.makedirs(dst) raises before any file
\* is copied
FileExistsError == [type |-> "FileExistsError", text |-> "", cmd |-> "", returncode |-> 0, cause |-> NoCause]

\* cuegui: if os.path.exists(build_path/cuegui/bin): shutil.copytree(it, build_path/bin)
CopyBin ==
    /\ pc = "copy_bin"
    /\ events' = Append(events, "BIN")
    /\ IF ~DirExists(bld, <<"cuegui", "bin">>)
       THEN pc' = Then(pc) /\ UNCHANGED <<bld, raised>>
       ELSE IF DirExists(bld, <<"bin">>)
       THEN pc' = "failed" /\ raised' = Reraised(FileExistsError) /\ bld' = bld
       ELSE /\ pc' = Then(pc)
            /\ bld' = bld \cup copytree(bld, <<"cuegui", "bin">>, <<"bin">>)
            /\ raised' = raised
    /\ UNCHANGED <<pkg, targets, proto_src_exists, proto_src_files, fix_script_exists, src0, bld0, fs_faulty, builds,
                   src, inst, inst0, stubs0, proto_files, calls, log>>
    /\ UNCHANGED textVars

\* cueadmin: os.makedirs(bin_dir, exist_ok=True); write bin/cueadmin; os.chmod
CreateCueadmin ==
    /\ pc = "create_cueadmin"
    /\ pc' = Then(pc)
    /\ events' = Append(events, "LAUNCHER")
    /\ bld' = WriteFiles(bld, {File(<<"bin", "cueadmin">>, "launcher")})
    /\ UNCHANGED <<pkg, targets, proto_src_exists, proto_src_files, fix_script_exists, src0, bld0, fs_faulty, builds,
                   src, inst, inst0, stubs0, proto_files, calls, log, raised>>
    /\ UNCHANGED textVars

\* cueadmin _install: if exists(build_path): rmtree(install_path); copytree(build, install)
InstallCueadmin ==
    /\ pc = "install"
    /\ pkg = "cueadmin"
    /\ pc' = Then(pc)
    /\ events' = Append(events, "INSTALL")
    /\ inst' = ReplaceDir(inst, bld, <<>>)
    /\ UNCHANGED <<pkg, targets, proto_src_exists, proto_src_files, fix_script_exists, src0, bld0, fs_faulty, builds,
                   src, bld, inst0, stubs0, proto_files, calls, log, raised>>
    /\ UNCHANGED textVars

\* cuegui _install: replace install_path by build_path, then, if build_path/bin exists,
\* install_path/bin by build_path/bin
InstallCuegui ==
    /\ pc = "install"
    /\ pkg = "cuegui"
    /\ pc' = Then(pc)
    /\ events' = Append(events, "INSTALL")
    /\ LET all == ReplaceDir(inst, bld, <<>>)
       IN inst' = IF DirExists(bld, <<"bin">>) THEN ReplaceDir(all, bld, <<"bin">>) ELSE all
    /\ UNCHANGED <<pkg, targets, proto_src_exists, proto_src_files, fix_script_exists, src0, bld0, fs_faulty, builds,
                   src, bld, inst0, stubs0, proto_files, calls, log, raised>>
    /\ UNCHANGED textVars

\* class BuildError(Exception), raised inside an except block that caught e
BuildError(text, e) ==
    [type |-> "BuildError", text |-> text, cmd |-> "", returncode |-> e.returncode, cause |-> e]

\* subprocess.run found no executable named npm
FileNotFoundError == [type |-> "FileNotFoundError", returncode |-> 0, stderr |-> "", stdout |-> ""]

NpmOutputs == {"", "npm ERR! code ELIFECYCLE"}

\* the entries of the model's source trees that the cueweb copy loop skips:
\* item.startswith(".") or, for a pattern of skip_patterns, item.startswith(pattern)
WebSkipped ==
    {".env", ".git", ".next", "node_modules", "__pycache__", "build", "build.py"}

\* cueweb: for item in os.listdir(source_path): skip; a directory replaces the destination,
\* a file is copied over it
CopySourceWeb ==
    /\ pc = "copy"
    /\ pkg = "cueweb"
    /\ pc' = Then(pc)
    /\ events' = Append(events, "COPY")
    /\ LET copied == Names(src, <<>>) \ WebSkipped
       IN bld' = {f \in bld : f.path[1] \notin copied} \cup {f \in src : f.path[1] \in copied}
    /\ UNCHANGED <<pkg, targets, proto_src_exists, proto_src_files, fix_script_exists, src0, bld0, fs_faulty, builds,
                   src, inst, inst0, stubs0, proto_files, calls, log, raised>>
    /\ UNCHANGED textVars

\* logger.error for a captured stream, only "if e.stdout:" / "if e.stderr:"
LogStream(text, out) == IF out = "" THEN <<>> ELSE <<Rec("ERROR", text, out)>>

\* variant: the except block logs the failure and the build goes on
OnNpmFailure_Continue(tool, e) ==
    [pc |-> Then(pc),
     log |-> <<Rec("ERROR", "npm failed: ", tool)>>,
     raised |-> NoError]

\* the except blocks of the three npm calls: log the failure, raise BuildError
OnNpmFailure(tool, e) ==
    [pc |-> "failed",
     log |-> CASE e.type = "FileNotFoundError" -> <<>>
               [] tool = "npm --version" ->
                    <<Rec("ERROR", "npm check failed with exit code ", "returncode")>>
                    \o LogStream("npm stderr: ", e.stderr)
               [] tool = "npm ci" ->
                    <<Rec("ERROR", "Failed to install dependencies: ", "CalledProcessError")>>
                    \o LogStream("stdout: ", e.stdout) \o LogStream("stderr: ", e.stderr)
               [] tool = "npm run build" ->
                    <<Rec("ERROR", "Failed to build Next.js application: ", "CalledProcessError")>>
                    \o LogStream("stdout: ", e.stdout) \o LogStream("stderr: ", e.stderr),
     raised |-> CASE e.type = "FileNotFoundError" -> BuildError("npm is not available. ", e)
                  [] tool = "npm --version" -> BuildError("npm is not working properly. Exit code: ", e)
                  [] tool = "npm ci" -> BuildError("npm install failed with return code ", e)
                  [] tool = "npm run build" -> BuildError("npm build failed with return code ", e)]

\* what a successful npm call writes below build_path
NpmOutput(tool) ==
    CASE tool = "npm --version" -> {}
      [] tool = "npm ci" -> {File(<<"node_modules", "next", "index.js">>, "npm")}
      [] tool = "npm run build" -> {File(<<".next", "BUILD_ID">>, "npm")}

\* subprocess.run(["npm", ...], check=True, capture_output=True, cwd=build_path) in its
\* try block; found is FALSE when there is no npm on the PATH
RunNpm(tool, found) ==
    \E rc \in ExitCodes, out \in NpmOutputs, err \in NpmOutputs :
       /\ calls' = Append(calls, Call(tool, found, IF found THEN rc ELSE 0, IF found THEN err ELSE ""))
       /\ IF found /\ rc = 0
          THEN /\ pc' = Then(pc)
               /\ bld' = WriteFiles(bld, NpmOutput(tool))
               /\ UNCHANGED <<log, raised>>
          ELSE LET e == IF found THEN CalledProcessError(tool, rc, out, err) ELSE FileNotFoundError
                   h == OnNpmFailure(tool, e)
               IN /\ pc' = h.pc
                  /\ log' = log \o h.log
                  /\ raised' = h.raised
                  /\ bld' = bld

\* try: subprocess.run(["npm", "--version"], ...) except CalledProcessError / FileNotFoundError
NpmVersion ==
    /\ pc = "npm_version"
    /\ events' = Append(events, "NPM_VERSION")
    /\ \E found \in BOOLEAN : RunNpm("npm --version", found)
    /\ UNCHANGED <<pkg, targets, proto_src_exists, proto_src_files, fix_script_exists, src0, bld0, fs_faulty, builds,
                   src, inst, inst0, stubs0, proto_files>>
    /\ UNCHANGED textVars

\* try: subprocess.run(["npm", "ci", "--production=false"], ...) except CalledProcessError
NpmCi ==
    /\ pc = "npm_ci"
    /\ events' = Append(events, "NPM_CI")
    /\ RunNpm("npm ci", TRUE)
    /\ UNCHANGED <<pkg, targets, proto_src_exists, proto_src_files, fix_script_exists, src0, bld0, fs_faulty, builds,
                   src, inst, inst0, stubs0, proto_files>>
    /\ UNCHANGED textVars

\* try: subprocess.run(["npm", "run", "build"], ...) except CalledProcessError
NpmBuild ==
    /\ pc = "npm_build"
    /\ events' = Append(events, "NPM_BUILD")
    /\ RunNpm("npm run build", TRUE)
    /\ UNCHANGED <<pkg, targets, proto_src_exists, proto_src_files, fix_script_exists, src0, bld0, fs_faulty, builds,
                   src, inst, inst0, stubs0, proto_files>>
    /\ UNCHANGED textVars

\* _create_executable(): os.makedirs(bin_dir, exist_ok=True); write bin/cueweb; os.chmod
CreateExecutable ==
    /\ pc = "create_executable"
    /\ pc' = Then(pc)
    /\ events' = Append(events, "LAUNCHER")
    /\ bld' = WriteFiles(bld, {File(<<"bin", "cueweb">>, "launcher")})
    /\ UNCHANGED <<pkg, targets, proto_src_exists, proto_src_files, fix_script_exists, src0, bld0, fs_faulty, builds,
                   src, inst, inst0, stubs0, proto_files, calls, log, raised>>
    /\ UNCHANGED textVars

cleanup_patterns == <<
    <<"src">>, <<"app", "__tests__">>, <<"jest">>, <<"jest.config.js">>, <<".eslintrc.json">>,
    <<".prettierrc.json">>, <<".prettierignore">>, <<"README.md">>, <<"tailwind.config.js">>,
    <<"tailwind.config.ts">>, <<"tsconfig.json">>, <<"postcss.config.js">>,
    <<"components.json">>, <<"Dockerfile">>, <<"sentry.*.config.ts">>, <<"build.py">>,
    <<"interface_screenshots">> >>

\* for pattern in cleanup_patterns: if exists(path): rmtree(path) or os.remove(path)
RECURSIVE Cleaned(_, _)
Cleaned(tree, i) ==
    IF i > Len(cleanup_patterns) THEN tree
    ELSE Cleaned(rmtree(tree, cleanup_patterns[i]), i + 1)

\* _cleanup_build_directory()
CleanupBuildDirectory ==
    /\ pc = "cleanup"
    /\ pc' = Then(pc)
    /\ events' = Append(events, "CLEANUP")
    /\ bld' = Cleaned(bld, 1)
    /\ UNCHANGED <<pkg, targets, proto_src_exists, proto_src_files, fix_script_exists, src0, bld0, fs_faulty, builds,
                   src, inst, inst0, stubs0, proto_files, calls, log, raised>>
    /\ UNCHANGED textVars

build_artifacts == <<"bin", ".next", "package.json", "package-lock.json", "next.config.js", "public">>

\* for artifact in build_artifacts: skip it when build_path holds none, else replace
\* install_path/artifact by build_path/artifact
RECURSIVE InstalledArtifacts(_, _, _)
InstalledArtifacts(instTree, bldTree, i) ==
    IF i > Len(build_artifacts) THEN instTree
    ELSE InstalledArtifacts(
            IF DirExists(bldTree, <<build_artifacts[i]>>)
            THEN ReplaceDir(instTree, bldTree, <<build_artifacts[i]>>)
            ELSE instTree,
            bldTree, i + 1)

\* the warnings of _install, one for each artifact build_path does not hold
RECURSIVE ArtifactWarnings(_, _)
ArtifactWarnings(bldTree, i) ==
    IF i > Len(build_artifacts) THEN <<>>
    ELSE (IF DirExists(bldTree, <<build_artifacts[i]>>) THEN <<>>
          ELSE <<Rec("WARNING", "Artifact not found in build directory, skipping", build_artifacts[i])>>)
         \o ArtifactWarnings(bldTree, i + 1)

\* cueweb _install
InstallCueweb ==
    /\ pc = "install"
    /\ pkg = "cueweb"
    /\ pc' = Then(pc)
    /\ events' = Append(events, "INSTALL")
    /\ inst' = InstalledArtifacts(inst, bld, 1)
    /\ log' = log \o ArtifactWarnings(bld, 1)
    /\ UNCHANGED <<pkg, targets, proto_src_exists, proto_src_files, fix_script_exists, src0, bld0, fs_faulty, builds,
                   src, bld, inst0, stubs0, proto_files, calls, raised>>
    /\ UNCHANGED textVars

\* build() is called again with the same arguments on the trees the completed call left
Rebuild ==
    /\ pc = "done"
    /\ builds < MaxBuilds
    /\ builds' = builds + 1
    /\ pc' = "build"
    /\ calls' = <<>>
    /\ events' = <<>>
    /\ log' = <<>>
    /\ inst0' = inst
    /\ src0' = src
    /\ bld0' = bld
    /\ UNCHANGED <<pkg, targets, proto_src_exists, proto_src_files, fix_script_exists, fs_faulty,
                   src, bld, inst, stubs0, proto_files, raised>>
    /\ UNCHANGED textVars

NextOnce ==
    \/ BuildEnter
    \/ CopySourceOneLevel
    \/ CopyBin
    \/ CreateCueadmin
    \/ CopySourceWeb
    \/ NpmVersion
    \/ NpmCi
    \/ NpmBuild
    \/ CreateExecutable
    \/ CleanupBuildDirectory
    \/ AfterBuild
    \/ InstallCueadmin
    \/ InstallCuegui
    \/ InstallCueweb

NextOthers == NextOnce \/ Rebuild

\* cuegui, cueadmin and cueweb, built once or several times in a row
SpecOthers == InitOthers /\ [][NextOthers]_vars

\* the five build scripts, each run once; a pycue or rqd run may meet a filesystem failure
InitAll == (InitDisk /\ fs_faulty \in BOOLEAN /\ InitText) \/ InitOthers

NextAll == Next \/ NextOnce

SpecAll == InitAll /\ [][NextAll]_vars

----------------------------------------------------------------------------
(* _fix_rqd_imports applied to one file, for every text assembled from the fragments *)

InitRewrite ==
    /\ pkg = "rqd"
    /\ targets = {}
    /\ pc = "fix_rqd_imports"
    /\ proto_src_exists = TRUE
    /\ proto_src_files = {}
    /\ fix_script_exists = FALSE
    /\ src = {}
    /\ bld = {}
    /\ inst = {}
    /\ inst0 = {}
    /\ stubs0 = {}
    /\ src0 = {}
    /\ bld0 = {}
    /\ fs_faulty = FALSE
    /\ builds = 0
    /\ proto_files = {}
    /\ calls = <<>>
    /\ events = <<>>
    /\ log = <<>>
    /\ raised = NoError
    /\ \E n \in 1..MaxPieces : \E f \in [1..n -> 1..Len(Fragments)] : content = Concat(f, n)
    /\ original = content
    /\ runs = 0

\* with open(filepath) as f: content = f.read(); three replaces; f.write(content)
FixFile ==
    /\ runs < MaxRuns
    /\ content' = FixContent(content)
    /\ runs' = runs + 1
    /\ UNCHANGED original
    /\ UNCHANGED buildVars

NextRewrite == FixFile

SpecRewrite == InitRewrite /\ [][NextRewrite]_vars

----------------------------------------------------------------------------
(* Properties *)

Happened(ev) == \E i \in 1..Len(events) : events[i] = ev

Failed(tool) == \E i \in 1..Len(calls) : calls[i].tool = tool /\ calls[i].started /\ calls[i].returncode # 0

NotFound(tool) == \E i \in 1..Len(calls) : calls[i].tool = tool /\ ~calls[i].started

Logged(level, text) == \E i \in 1..Len(log) : log[i].level = level /\ log[i].text = text

HandWritten(tree) == {f \in tree : f.origin = "src"}

StagesAfterCompile == {"MODE_A", "NORMALIZE", "COPY", "MODE_B", "LAUNCHER", "INSTALL"}

\* C1: once grpc_tools.protoc has exited non-zero the build is aborted with TestError and
\* no later stage is ever started: protoc is the only subprocess that was run, neither the
\* fix helper nor 2to3 is invoked, nothing is copied from the source, no Mode B rewriting
\* happens and the install tree is left as it was.
C1_ProtocFailureAborts ==
    Failed("grpc_tools.protoc") =>
        /\ pc = "failed"
        /\ raised.type = "TestError"
        /\ raised.text = "Proto compilation failed: "
        /\ \A i \in 1..Len(calls) : calls[i].tool = "grpc_tools.protoc"
        /\ \A i \in 1..Len(events) : events[i] \notin StagesAfterCompile
        /\ HandWritten(bld) = {}
        /\ runs = 0
        /\ inst = inst0

C1_Witness == Failed("grpc_tools.protoc") /\ pc = "failed" /\ "install" \in targets

FixSkipped == Logged("WARNING", "fix_compiled_proto.py not found at ")

\* C2 as stated: a missing helper and a helper that exits non-zero are both tolerated,
\* no fatal error is raised and the build goes on.
C2_Original ==
    (FixSkipped \/ Failed("fix_compiled_proto.py")) => raised = NoError /\ pc # "failed"

\* C2 amended: a missing helper script only logs a warning and the build continues with
\* 2to3 and the rest; a helper subprocess that exits non-zero is fatal: its output is
\* logged as errors, TestError is raised and neither 2to3 nor any later stage runs.
C2_FixHelperFailure ==
    /\ (pc \notin {"build", "exists_proto_src", "clear", "listdir", "protoc", "fix", "failed"}
           /\ ~fix_script_exists) => FixSkipped
    /\ FixSkipped =>
        /\ raised = NoError
        /\ pc # "failed"
        /\ ~Happened("MODE_A")
        /\ pc # "2to3" => Happened("NORMALIZE")
    /\ Failed("fix_compiled_proto.py") =>
        /\ pc = "failed"
        /\ raised.type = "TestError"
        /\ raised.text = "Proto import fixing failed: "
        /\ Logged("ERROR", "Failed to fix proto imports: ")
        /\ \A i \in 1..Len(events) : events[i] \notin (StagesAfterCompile \ {"MODE_A"})
        /\ inst = inst0

C2_Witness == FixSkipped /\ pc = "done" /\ Happened("NORMALIZE")

\* the stages that follow the 2to3 stage in a build that completes
StagesAfterNormalize ==
    <<"COPY">> \o (IF pkg = "rqd" THEN <<"MODE_B", "LAUNCHER">> ELSE <<>>)
               \o (IF "install" \in targets THEN <<"INSTALL">> ELSE <<>>)

\* the events recorded after the first occurrence of ev
EventsAfter(ev) ==
    LET i == CHOOSE j \in 1..Len(events) : events[j] = ev /\ \A k \in 1..(j - 1) : events[k] # ev
    IN SubSeq(events, i + 1, Len(events))

\* C3: when 2to3 is absent or exits non-zero, nothing is raised, a warning is logged, and
\* the build runs every remaining stage (copy, Mode B and launcher for rqd, install when
\* requested), the same stages as after a successful 2to3.
C3_NormalizeFailureTolerated ==
    /\ (NotFound("2to3") \/ Failed("2to3")) =>
        /\ raised = NoError
        /\ pc # "failed"
        /\ NotFound("2to3") => Logged("WARNING", "2to3 tool not found, skipping conversion")
        /\ Failed("2to3") => Logged("WARNING", "2to3 conversion failed or not needed: ")
    /\ (pc = "done" /\ Happened("NORMALIZE")) =>
        /\ EventsAfter("NORMALIZE") = StagesAfterNormalize
        /\ HandWritten(bld) # {}
        /\ pkg = "rqd" => \E f \in bld : f.origin = "launcher"
        /\ "install" \in targets => inst # inst0 /\ HandWritten(inst) # {}

C3_Witness == NotFound("2to3") /\ pc = "done" /\ pkg = "rqd" /\ "install" \in targets

InputMissing == ~proto_src_exists \/ ~\E f \in proto_src_files : EndsWithProto(f)

\* C4: when the proto directory is missing or holds no .proto file, no subprocess is ever
\* invoked, no stage after discovery starts, and the build ends with the fatal TestError.
C4_InputMissingFailsFast ==
    InputMissing =>
        /\ calls = <<>>
        /\ \A i \in 1..Len(events) : events[i] \in {"DISCOVER", "CLEAR", "LIST"}
        /\ pc \in {"build", "exists_proto_src", "clear", "listdir", "failed"}
        /\ pc = "failed" =>
              /\ raised.type = "TestError"
              /\ raised.text = IF proto_src_exists
                               THEN "No .proto files found in proto source directory"
                               ELSE "Proto source not found at "
        /\ HandWritten(bld) = {}
        /\ inst = inst0

C4_Witness == pc = "failed" /\ proto_src_exists /\ proto_src_files # {} /\ InputMissing

\* C5 as stated: in a completed build both rewrite modes have finished before 2to3 is
\* invoked.
C5_Original ==
    pc = "done" =>
        \A i, j \in 1..Len(events) :
            (events[i] \in {"MODE_A", "MODE_B"} /\ events[j] = "NORMALIZE") => i < j

\* C5 amended: a completed build ran its stages in the order discover (existence check,
\* clearing of the stub directory, listing), compile, Mode A rewriting of the generated
\* stubs when the helper exists, 2to3, source copy, then for rqd Mode B rewriting of the
\* copied hand-written files and the launcher, then install when requested: Mode A has
\* finished before 2to3 is invoked, Mode B runs after it.
C5_StageOrder ==
    pc = "done" =>
        events = <<"DISCOVER", "CLEAR", "LIST", "COMPILE">>
                 \o (IF fix_script_exists THEN <<"MODE_A">> ELSE <<>>)
                 \o <<"NORMALIZE", "COPY">>
                 \o (IF pkg = "rqd" THEN <<"MODE_B", "LAUNCHER">> ELSE <<>>)
                 \o (IF "install" \in targets THEN <<"INSTALL">> ELSE <<>>)

C5_Witness == pc = "done" /\ pkg = "rqd" /\ Happened("MODE_A") /\ Happened("MODE_B")

Discovered == {f \in proto_src_files : EndsWithProto(f)}

FileName(f) == f.path[Len(f.path)]

\* C6: right after a successful compile the stub directory holds exactly one data-binding
\* file and one service-binding file per discovered .proto file, all written by this
\* compile, and nothing that was there before the build.
C6_ClearBeforeWrite ==
    (pc = "fix" /\ Discovered # {}) =>
        /\ \A f \in StubDir : f.origin = "protoc" /\ Len(f.path) = Len(compiled_proto_path) + 1
        /\ \A i \in 1..Len(ProtoName) :
              (ProtoName[i] \in Discovered) <=>
                  (\E f \in StubDir : FileName(f) = Pb2Name[i])
        /\ \A i \in 1..Len(ProtoName) :
              (ProtoName[i] \in Discovered) <=>
                  (\E f \in StubDir : FileName(f) = Pb2GrpcName[i])
        /\ Cardinality(StubDir) = 2 * Cardinality(Discovered)
        /\ StubDir \cap stubs0 = {}

C6_Witness ==
    /\ pc = "fix"
    /\ \E f \in stubs0 : \A g \in StubDir : g.path # f.path
    /\ \E f \in stubs0 : \E g \in StubDir : g.path = f.path

\* C7: rewriting a text a second time yields the text of the first rewriting, and a text
\* that has been rewritten is a fixed point of the rewriting.
C7_RewriteIdempotent ==
    /\ runs >= 2 => content = FixContent(original)
    /\ runs >= 1 => FixContent(content) = content

C7_Witness == runs = 2 /\ content # original

\* start positions of the occurrences of pat in s
Occurrences(s, pat) ==
    {i \in 1..(Len(s) - Len(pat) + 1) : SubSeq(s, i, i + Len(pat) - 1) = pat}

\* s with every position covered by an occurrence of old taken out and new put where the
\* occurrence started, every other character kept in place
RECURSIVE SubstituteFrom(_, _, _, _)
SubstituteFrom(s, old, new, i) ==
    IF i > Len(s) THEN <<>>
    ELSE (IF i \in Occurrences(s, old) THEN new
          ELSE IF \E j \in Occurrences(s, old) : j < i /\ i < j + Len(old) THEN <<>>
          ELSE <<s[i]>>)
         \o SubstituteFrom(s, old, new, i + 1)

\* C8: after one rewriting no occurrence of "opencue_proto." is left in the text, and the
\* text is the original with "rqd.compiled_proto." at the place of each occurrence and
\* every other character unchanged.
C8_AllFormsRelocated ==
    runs = 1 =>
        /\ Occurrences(content, opencue_proto_dot) = {}
        /\ content = SubstituteFrom(original, opencue_proto_dot, rqd_compiled_proto_dot, 1)

\* the text uses the canonical package as plain import, as from-import and as qualifier
HasThreeForms(s) ==
    /\ Occurrences(s, import_kw \o opencue_proto_dot) # {}
    /\ Occurrences(s, from_kw \o opencue_proto_dot) # {}
    /\ \E i \in Occurrences(s, opencue_proto_dot) :
          /\ i - Len(import_kw) \notin Occurrences(s, import_kw \o opencue_proto_dot)
          /\ i - Len(from_kw) \notin Occurrences(s, from_kw \o opencue_proto_dot)

C8_Witness == runs = 1 /\ HasThreeForms(original)

\* the captured stderr of the failed protoc call
ProtocStderr ==
    LET i == CHOOSE j \in 1..Len(calls) : calls[j].tool = "grpc_tools.protoc" IN calls[i].stderr

\* the pieces of text the message of an exception is made of: for a TestError raised from a
\* CalledProcessError e, "<text>" followed by str(e),
\* "Command '<cmd>' returned non-zero exit status <returncode>."
MessageParts(e) == {e.text, "Command '", e.cmd, "' returned non-zero exit status ", "."}

\* C9 as stated: the error raised to the caller carries the captured stderr text.
C9_Original ==
    (Failed("grpc_tools.protoc") /\ ProtocStderr # "") => ProtocStderr \in MessageParts(raised)

\* C9 amended: when protoc exits non-zero its captured stderr is written to the log at
\* error level and TestError is raised; the message of the TestError names only the command
\* and the exit status, the stderr text stays attached to the CalledProcessError it was
\* raised from.
C9_StderrLoggedNotRaised ==
    Failed("grpc_tools.protoc") =>
        /\ \E i \in 1..Len(log) : log[i] = Rec("ERROR", "stderr: ", ProtocStderr)
        /\ raised.type = "TestError"
        /\ raised.cmd = "grpc_tools.protoc"
        /\ raised.returncode # 0
        /\ raised.cause.type = "CalledProcessError"
        /\ raised.cause.stderr = ProtocStderr
        /\ ProtocStderr # "" => ProtocStderr \notin MessageParts(raised)

C9_Witness == Failed("grpc_tools.protoc") /\ ProtocStderr # "" /\ pc = "failed"

Installed == pc = "done" /\ Happened("INSTALL")

\* what _install is meant to put under the install path
BuildOutput == IF pkg = "pycue" THEN bld ELSE Under(bld, <<"rqd">>) \cup Under(bld, <<"bin">>)

\* C10 as stated: after _install the install path holds exactly the build output, for
\* pycue and for rqd.
C10_Original == Installed => inst = BuildOutput

\* C10 amended: the pycue install replaces the whole install tree by the content of the
\* build path; the rqd install replaces the rqd and bin directories of the install path by
\* those of the build path and leaves every other entry of the install path as it was.
C10_InstallReplaces ==
    Installed =>
        IF pkg = "pycue"
        THEN inst = bld
        ELSE /\ Under(inst, <<"rqd">>) = Under(bld, <<"rqd">>)
             /\ Under(inst, <<"bin">>) = Under(bld, <<"bin">>)
             /\ inst \ (Under(inst, <<"rqd">>) \cup Under(inst, <<"bin">>))
                    = inst0 \ (Under(inst0, <<"rqd">>) \cup Under(inst0, <<"bin">>))

C10_Witness == Installed /\ pkg = "rqd" /\ inst0 # {} /\ inst # inst0

BuildSucceeded == pc \in {"built", "install", "done"}

LeftOver(tree) == {f \in tree : f.origin = "stale"}

\* C11 as stated: at the end of a successful build the build path holds nothing left by an
\* earlier build, and nothing of that kind is installed.
C11_Original ==
    BuildSucceeded => LeftOver(bld) = {} /\ (Installed => LeftOver(inst) = {})

\* the files of the build path that _build removes or overwrites
ReplacedByBuild(f) ==
    IF pkg = "pycue"
    THEN f.path[1] \in {"opencue_proto"} \cup (Names(src, <<>>) \ {"build"})
    ELSE f.path[1] = "rqd" \/ f.path = <<"bin", "rqd">>

\* C11 amended: the build path is not cleared as a whole; a build replaces only the entries
\* it writes (pycue: the stub directory and every top-level entry that exists in the source;
\* rqd: the rqd directory and the launcher bin/rqd); every other file left in the build path
\* by an earlier build is still there at the end of the build, and the pycue install copies
\* it to the install path.
C11_BuildDirReplacedPerEntry ==
    BuildSucceeded =>
        /\ LeftOver(bld) = {f \in bld0 : ~ReplacedByBuild(f)}
        /\ (Installed /\ pkg = "pycue") => LeftOver(inst) = LeftOver(bld)

C11_Witness == Installed /\ pkg = "pycue" /\ LeftOver(inst) # {} /\ LeftOver(bld0) # LeftOver(bld)

\* C13 as stated: for pycue and rqd alike the build never creates, deletes or modifies
\* anything under the source path.
C13_Original == src = src0

\* C13 amended: the pycue build leaves the source path as it found it; the rqd build
\* changes the source path only inside rqd/compiled_proto, where it clears the directory
\* and writes the compiled stubs.
C13_SourceFrame ==
    /\ pkg = "pycue" => src = src0
    /\ pkg = "rqd" =>
          /\ rmtree(src, <<"rqd", "compiled_proto">>) = rmtree(src0, <<"rqd", "compiled_proto">>)
          /\ Happened("COMPILE") /\ pc # "failed" =>
                \A i \in 1..Len(ProtoName) :
                   ProtoName[i] \in Discovered =>
                      File(<<"rqd", "compiled_proto", Pb2Name[i]>>, "protoc").path
                          \in {f.path : f \in {g \in src : g.origin = "protoc"}}

C13_Witness ==
    /\ pkg = "rqd" /\ pc = "done" /\ src # src0
    /\ \E f \in src0 : f.origin = "stale" /\ f \notin src
    /\ \E f \in src : f.origin = "protoc"

\* C17 as stated: a build that fails with the input-missing error leaves the stub
\* directory as it was when the build started.
C17_Original == (pc = "failed" /\ InputMissing /\ ~fs_faulty) => StubDir = stubs0

\* C17 amended: when the proto source directory is absent the stub directory is left as it
\* was; when the directory is present and holds no .proto file the stub directory has been
\* cleared before the error is raised and is left empty.
C17_StubDirAfterInputMissing ==
    (pc = "failed" /\ InputMissing /\ ~fs_faulty) =>
        StubDir = IF proto_src_exists THEN {} ELSE stubs0

C17_Witness ==
    /\ pc = "failed" /\ InputMissing /\ proto_src_exists
    /\ stubs0 # {} /\ StubDir = {}

\* C18 as stated: after a successful pycue build, opencue_proto in the build path holds
\* exactly the stubs compiled in this build, whatever the entries of the source path are.
C18_Original ==
    (pkg = "pycue" /\ BuildSucceeded) =>
        /\ \A f \in Under(bld, <<"opencue_proto">>) : f.origin = "protoc"
        /\ \A i \in 1..Len(ProtoName) :
              ProtoName[i] \in Discovered =>
                 \E f \in bld : f.path = <<"opencue_proto", Pb2Name[i]>> /\ f.origin = "protoc"

Listed(f) == \E i \in 1..Len(files_to_fix) : f.path = <<"rqd", files_to_fix[i]>>

\* C15: the Mode B step rewrites exactly the listed files that exist directly inside the
\* rqd directory of the build path and changes no other file of the build path, no file of
\* the source path and no file of the install path; for each listed file that is missing it
\* logs a warning, raises nothing, and the build goes on to the launcher.
C15_ModeBFrame ==
    [][(pc = "fix_rqd_imports" /\ pc' # pc) =>
          /\ pc' = "launcher" /\ raised' = raised
          /\ src' = src /\ inst' = inst
          /\ {f.path : f \in bld'} = {f.path : f \in bld}
          /\ \A f \in bld :
                IF Listed(f) THEN [f EXCEPT !.marks = @ \cup {"modeB"}] \in bld' ELSE f \in bld'
          /\ \A i \in 1..Len(files_to_fix) :
                (~\E f \in bld : f.path = <<"rqd", files_to_fix[i]>>) =>
                   \E j \in (Len(log) + 1)..Len(log') :
                      log'[j] = Rec("WARNING", "File not found: ", files_to_fix[i])]_vars

C15_Witness ==
    /\ pc = "launcher"
    /\ Logged("WARNING", "File not found: ")
    /\ \E f \in bld : Listed(f) /\ "modeB" \in f.marks
    /\ \E f \in Under(bld, <<"rqd", "compiled_proto">>) : f.origin = "protoc" /\ "modeB" \notin f.marks

\* a letter, a digit or an underscore, among the characters the fragments are made of
IdentChar(c) == c \notin {" ", "."}

\* the occurrences of "opencue_proto." in s that are the tail of a longer identifier
TailOccurrences(s) ==
    {i \in Occurrences(s, opencue_proto_dot) : i > 1 /\ IdentChar(s[i - 1])}

\* C14 as stated: an occurrence of "opencue_proto." that is the tail of a longer identifier
\* is left unchanged by the rewriting; a text whose occurrences are all of that kind is
\* written back as it was read.
C14_Original ==
    (runs >= 1 /\ Occurrences(original, opencue_proto_dot) = TailOccurrences(original)) =>
        content = original

ProtoPipeline == pkg \in {"pycue", "rqd"}

\* C12 as stated: every fatal failure of the pycue or rqd pipeline, a filesystem failure on
\* the stub directory included, reaches the caller of build() as a TestError.
C12_Original == (ProtoPipeline /\ pc = "failed") => raised.type = "TestError"

\* C12 amended: a missing proto directory, a proto directory without .proto file and a
\* non-zero exit of protoc or of the fix helper reach the caller as TestError; a failure of
\* rmtree or makedirs on the stub directory reaches the caller as the OSError it is.
C12_FatalErrorTypes ==
    (ProtoPipeline /\ pc = "failed") =>
        IF events[Len(events)] = "CLEAR"
        THEN fs_faulty /\ raised.type = "OSError"
        ELSE /\ raised.type = "TestError"
             /\ ~proto_src_exists => raised.text = "Proto source not found at "
             /\ (proto_src_exists /\ InputMissing) =>
                   raised.text = "No .proto files found in proto source directory"
             /\ Failed("grpc_tools.protoc") => raised.text = "Proto compilation failed: "

C12_Witness ==
    /\ ProtoPipeline /\ pc = "failed" /\ raised.type = "OSError"
    /\ stubs0 # {} /\ StubDir # stubs0

LastBuildStage ==
    CASE pkg = "pycue" -> "COPY"
      [] pkg = "rqd" -> "LAUNCHER"
      [] pkg = "cueadmin" -> "LAUNCHER"
      [] pkg = "cuegui" -> "BIN"
      [] pkg = "cueweb" -> "CLEANUP"

\* C16: in each of the five build scripts _install starts only when "install" is among the
\* targets and the last stage of _build has completed without raising; the install path
\* differs from what it was when build() was entered only after _install has started, so
\* a failed build and a build without the install target leave it unchanged.
C16_InstallOnlyAfterBuild ==
    /\ pc = "install" \/ Happened("INSTALL") =>
          /\ "install" \in targets
          /\ Happened(LastBuildStage)
          /\ \A i \in 1..Len(events) : events[i] = "INSTALL" => i = Len(events)
          /\ pc = "install" => raised = NoError
    /\ inst # inst0 => Happened("INSTALL")
    /\ (pc = "failed" /\ ~Happened("INSTALL")) => inst = inst0
    /\ "install" \notin targets => inst = inst0

C16_Witness ==
    /\ pkg = "cueweb" /\ pc = "failed" /\ "install" \in targets
    /\ inst0 # {} /\ inst = inst0 /\ bld # bld0

\* C19 as stated: a second run of the cuegui build, on the build directory the first run
\* left and with an unchanged source tree that holds cuegui/bin, completes without error
\* and leaves build_path/bin equal to cuegui/bin.
C19_Original ==
    (pkg = "cuegui" /\ builds >= 1 /\ src = src0 /\ DirExists(src, <<"cuegui", "bin">>)) =>
        /\ pc # "failed"
        /\ BuildSucceeded => Under(bld, <<"bin">>) = copytree(src, <<"cuegui", "bin">>, <<"bin">>)

WebStages == <<"COPY", "NPM_VERSION", "NPM_CI", "NPM_BUILD", "LAUNCHER", "CLEANUP", "INSTALL">>

NpmCalls == <<"npm --version", "npm ci", "npm run build">>

NpmFailedAt(i) == ~calls[i].started \/ calls[i].returncode # 0

\* C20: the stages of a cueweb build run in the order source copy, npm check, npm ci,
\* npm run build, launcher, cleanup, install, each at most once; when npm is not found or
\* an npm call exits non-zero, that call is the last stage of the build: BuildError is
\* raised, no launcher is written and the install path is left as it was.
C20_WebStageOrder ==
    pkg = "cueweb" =>
        /\ Len(events) <= Len(WebStages) /\ events = SubSeq(WebStages, 1, Len(events))
        /\ Len(calls) <= Len(NpmCalls) /\ \A i \in 1..Len(calls) : calls[i].tool = NpmCalls[i]
        /\ \A i \in 1..Len(calls) :
              NpmFailedAt(i) =>
                 /\ pc = "failed" /\ raised.type = "BuildError"
                 /\ i = Len(calls) /\ Len(events) = i + 1
                 /\ inst = inst0
                 /\ builds = 0 => ~\E f \in bld : f.origin = "launcher"
        /\ raised.type = "BuildError" => \E i \in 1..Len(calls) : NpmFailedAt(i)

C20_Witness ==
    /\ pkg = "cueweb" /\ pc = "failed" /\ Failed("npm ci")
    /\ "install" \in targets /\ raised.text = "npm install failed with return code "

\* C21: for every text, the three replacements of _fix_rqd_imports applied in order give
\* the same text as the single replacement of "opencue_proto." by "rqd.compiled_proto.".
C21_StatementFormsRedundant ==
    /\ runs = 1 => content = replace(original, opencue_proto_dot, rqd_compiled_proto_dot)
    /\ FixContent(content) = replace(content, opencue_proto_dot, rqd_compiled_proto_dot)

C21_Witness ==
    /\ runs = 1 /\ content # original
    /\ Occurrences(original, from_kw \o opencue_proto_dot) # {}
    /\ Occurrences(original, import_kw \o from_kw) # {}

====
